---- MODULE Spec2Model ----
(***************************************************************************)
(* A model of unsat/data.py: DataSelection, XRayDataset (index resolution, *)
(* patch extraction, border mask, lazily opened HDF5 handle) and           *)
(* XRayDataModule.prepare_data (train/val/test split, loaders, workers).   *)
(***************************************************************************)
EXTENDS Integers, Sequences, FiniteSets, TLC

VARIABLES
    ds,          \* SpecIndex: the XRayDataset under iteration
    next_idx,    \* SpecIndex: next index of a sequential pass over range(len(ds))
    visited,     \* SpecIndex: the results of the pass so far, in order
    probe,       \* SpecIndex: the last direct ds[idx] call and its result
    mds,         \* SpecMask: the XRayDataset whose patches are taken
    init_shape,  \* SpecMask: shape of the array before the patch is cut
    item,        \* SpecMask: result of the last __getitem__ / compute_border_mask
    module,      \* the XRayDataModule (constructor arguments)
    store,       \* the HDF5 file: leaf groups and number of days
    prepared,    \* what prepare_data built in the main process, or how it ended
    access,      \* SpecSplit: the last item read from one of the four datasets
    workers,     \* Spec: per loader, the worker processes' dataset copies
    last_read    \* Spec: whether the last __getitem__ in a worker opened a handle

vars == <<ds, next_idx, visited, probe, mds, init_shape, item,
          module, store, prepared, access, workers, last_read>>

indexVars == <<ds, next_idx, visited, probe>>
maskVars == <<mds, init_shape, item>>
splitVars == <<module, store, prepared, access>>
workerVars == <<workers, last_read>>

----------------------------------------------------------------------------
(* Bounds of the model *)

MaxDays == 2
MaxHeights == 2
MaxProbe == 3
MaxExtent == 6
MaxBorder == 4
SmallExtent == 2
SmallBorder == 1
MaxPoints == 6
MaxWorkers == 2

\* Python's None; as a patch size or border it is as false as the empty tuple
None == <<>>

----------------------------------------------------------------------------
(* Python arithmetic and sequence semantics used by the code *)

\* Python's // : floor division, for a divisor that is not 0
FloorDiv(a, b) ==
    IF b > 0
    THEN (IF a >= 0 THEN a \div b ELSE -((-a + b - 1) \div b))
    ELSE (IF a <= 0 THEN (-a) \div (-b) ELSE -((a + (-b) - 1) \div (-b)))

\* Python's % : the remainder has the sign of the divisor
PyMod(a, b) == a - b * FloorDiv(a, b)

\* list[i] of a Python list of length n: i in [-n, n), a negative i counts from
\* the end; anything else raises IndexError.  The 1-based position, or 0.
ListPos(i, n) ==
    IF i >= 0 /\ i < n THEN i + 1
    ELSE IF i < 0 /\ i >= -n THEN n + i + 1
    ELSE 0

\* One bound of slice(lo, hi) applied to an axis of length n
SliceBound(k, n) ==
    IF k < 0 THEN (IF k + n < 0 THEN 0 ELSE k + n)
    ELSE (IF k > n THEN n ELSE k)

\* The positions slice(lo, hi) addresses on an axis of length n
SliceIndices(lo, hi, n) == SliceBound(lo, n) .. (SliceBound(hi, n) - 1)

RangeSet(r) == r[1] .. (r[2] - 1)

SeqToSet(s) == {s[i] : i \in 1..Len(s)}

----------------------------------------------------------------------------
(* DataSelection *)

DataSelection(sample_list, height_range, day_range, dimension) ==
    [sample_list |-> sample_list, height_range |-> height_range,
     day_range |-> day_range, dimension |-> dimension]

num_samples(sel) == Len(sel.sample_list)

num_heights(sel) == sel.height_range[2] - sel.height_range[1]

num_days(sel) == sel.day_range[2] - sel.day_range[1]

points_per_sample(sel) ==
    IF sel.dimension = 2 THEN num_heights(sel) * num_days(sel) ELSE num_days(sel)

num_points(sel) == num_samples(sel) * points_per_sample(sel)

----------------------------------------------------------------------------
(* XRayDataset *)

\* The handle opened in the constructor, in the main process
XRayDataset_hdf5_file_eager == <<"main", 0, "eager">>

\* __init__: the handle starts unopened; the shuffle argument is overwritten
XRayDataset_hdf5_file == None

XRayDataset(data_selection, name, patch_size, patch_border, dimension, shuffle) ==
    [name |-> name, hdf5_file |-> XRayDataset_hdf5_file, selection |-> data_selection,
     patch_size |-> patch_size, patch_border |-> patch_border,
     shuffle |-> TRUE, dimension |-> dimension]

XRayDataset_len(d) == num_points(d.selection)

\* __getitem__, lines 101-106 and 110: the coordinate an index resolves to.
\* height is the height index applied to the array, -1 when dimension is not 2
\* and the whole volume of the day is used.
ResolveIndex(d, idx) ==
    LET sel == d.selection
        pps == points_per_sample(sel)
        nh  == num_heights(sel)
    IN  IF pps = 0 THEN [outcome |-> "ZeroDivisionError"]
        ELSE LET sample_idx == FloorDiv(idx, pps)
                 data_idx   == PyMod(idx, pps)
                 pos        == ListPos(sample_idx, num_samples(sel))
             IN  IF pos = 0 THEN [outcome |-> "IndexError"]
                 ELSE IF nh = 0 THEN [outcome |-> "ZeroDivisionError"]
                 ELSE LET day_idx    == FloorDiv(data_idx, nh) + sel.day_range[1]
                          height_idx == PyMod(data_idx, nh) + sel.height_range[1]
                      IN  [outcome |-> "ok",
                           sample  |-> sel.sample_list[pos],
                           day     |-> day_idx,
                           height  |-> IF d.dimension = 2 THEN height_idx ELSE -1]

\* __getitem__, lines 108-112: the read of the arrays of a store in which every
\* sample of store_samples has total_days days of total_heights heights
ReadStore(r, store_samples, total_days, total_heights) ==
    IF r.outcome # "ok" THEN r
    ELSE IF r.sample \notin store_samples THEN [outcome |-> "KeyError"]
    ELSE IF r.day \notin 0..(total_days - 1) THEN [outcome |-> "IndexError"]
    ELSE IF r.height # -1 /\ r.height \notin 0..(total_heights - 1)
         THEN [outcome |-> "IndexError"]
    ELSE r

----------------------------------------------------------------------------
(* SpecIndex: one dataset over a store of MaxDays days and MaxHeights heights *)
(* per sample; a sequential pass over range(len(ds)) and direct ds[idx] calls *)

IndexSampleLists == {<<"a">>, <<"a", "b">>, <<"c", "a", "b">>}

Ranges(n) == {r \in (0..n) \X (0..n) : r[1] <= r[2]}

NoResult == [outcome |-> "none"]

IdleIndex ==
    /\ ds = None
    /\ next_idx = 0
    /\ visited = <<>>
    /\ probe = [idx |-> 0, result |-> NoResult]

GetItemCoordinate(d, idx) ==
    ReadStore(ResolveIndex(d, idx), {"a", "b", "c"}, MaxDays, MaxHeights)

InitIndex ==
    /\ \E sl \in IndexSampleLists, hr \in Ranges(MaxHeights),
          dr \in Ranges(MaxDays), dim \in {2, 3} :
          ds = XRayDataset(DataSelection(sl, hr, dr, dim), "ds", None, None, dim, TRUE)
    /\ next_idx = 0
    /\ visited = <<>>
    /\ probe = [idx |-> 0, result |-> NoResult]

\* The loader's sequential sampler: idx runs over range(len(ds)) in order
IterNext ==
    /\ next_idx < XRayDataset_len(ds)
    /\ visited' = Append(visited, GetItemCoordinate(ds, next_idx))
    /\ next_idx' = next_idx + 1
    /\ UNCHANGED <<ds, probe, maskVars, splitVars, workerVars>>

\* A direct call ds[idx] with any integer
ProbeGetItem ==
    /\ \E idx \in (-XRayDataset_len(ds) - MaxProbe) .. (XRayDataset_len(ds) + MaxProbe) :
          probe' = [idx |-> idx, result |-> GetItemCoordinate(ds, idx)]
    /\ UNCHANGED <<ds, next_idx, visited, maskVars, splitVars, workerVars>>

----------------------------------------------------------------------------
(* Patch extraction and border mask *)

Axes(d) == 1..d.dimension

\* All index tuples (0-based) of an array whose axis i holds the positions sets[i]
RECURSIVE Product(_)
Product(sets) ==
    IF Len(sets) = 0 THEN {<<>>}
    ELSE {<<x>> \o rest : x \in sets[1], rest \in Product(Tail(sets))}

FullMask(shape) ==
    [shape |-> shape, slices |-> <<>>,
     true |-> Product([i \in 1..Len(shape) |-> 0..(shape[i] - 1)])]

\* line 119
max_starts(d, shape) == [i \in Axes(d) |-> shape[i] - d.patch_size[i]]

\* np.random.randint(low, high): the values it can return; none when it raises
\* ValueError (low >= high)
randint(low, high) == low .. (high - 1)

\* lines 120-123: the patch starts __getitem__ can choose
patch_starts_choices(d, shape) ==
    IF d.shuffle
    THEN Product([i \in Axes(d) |-> randint(0, max_starts(d, shape)[i])])
    ELSE {[i \in Axes(d) |-> FloorDiv(max_starts(d, shape)[i], 2)]}

\* lines 125-129: the shape of data[slices]
patch_shape(d, shape, starts) ==
    [i \in Axes(d) |->
        Cardinality(SliceIndices(starts[i], starts[i] + d.patch_size[i], shape[i]))]

\* lines 162-165
border_start(d, patch_starts, i) ==
    IF d.patch_border[i] > patch_starts[i]
    THEN d.patch_border[i] - patch_starts[i]
    ELSE d.patch_border[i]

\* lines 166-169
border_end(d, shape, patch_starts, i) ==
    LET remaining == shape[i] - (patch_starts[i] + d.patch_size[i])
    IN  IF d.patch_border[i] > remaining
        THEN d.patch_border[i] - remaining
        ELSE d.patch_border[i]

\* lines 159-175: slices holds the arguments of slice(start, end) per axis, and
\* mask[slices] = True sets what those slices address in the patch-shaped mask
compute_border_mask(d, shape, patch_starts) ==
    IF d.patch_size = <<>> THEN FullMask(shape)
    ELSE IF d.patch_border = <<>> THEN FullMask(d.patch_size)
    ELSE LET slices == [i \in Axes(d) |->
                          <<border_start(d, patch_starts, i),
                            d.patch_size[i] - border_end(d, shape, patch_starts, i)>>]
         IN  [shape  |-> d.patch_size,
              slices |-> slices,
              true   |-> Product([i \in Axes(d) |->
                           SliceIndices(slices[i][1], slices[i][2], d.patch_size[i])])]

----------------------------------------------------------------------------
(* SpecMask: __getitem__'s patch and compute_border_mask on one array *)

AxisConfigs(maxExtent, maxBorder) ==
    {c \in (1..maxExtent) \X (1..maxExtent) \X (0..maxBorder) : c[2] <= c[1]}

\* The arrays and patch settings tried: 2-D up to MaxExtent, 3-D up to
\* SmallExtent, and the 20-wide array with patch 10 and border 3
MaskConfigs ==
    {<<c[1], c[2]>> : c \in AxisConfigs(MaxExtent, MaxBorder) \X AxisConfigs(MaxExtent, MaxBorder)}
    \cup {<<c[1], c[2], c[3]>> : c \in AxisConfigs(SmallExtent, SmallBorder)
                                    \X AxisConfigs(SmallExtent, SmallBorder)
                                    \X AxisConfigs(SmallExtent, SmallBorder)}
    \cup {<<(<<20, 10, 3>>), (<<20, 10, 3>>)>>}

NoItem == [op |-> "none", outcome |-> "none", patch_starts |-> <<>>,
           data_shape |-> <<>>, mask |-> FullMask(<<>>)]

IdleMask ==
    /\ mds = None
    /\ init_shape = <<>>
    /\ item = NoItem

InitMask ==
    /\ \E cfg \in MaskConfigs, use_size \in BOOLEAN, use_border \in BOOLEAN :
          /\ init_shape = [i \in 1..Len(cfg) |-> cfg[i][1]]
          /\ mds = XRayDataset(
                      DataSelection(<<"a">>, <<0, 1>>, <<0, 1>>, Len(cfg)), "ds",
                      IF use_size THEN [i \in 1..Len(cfg) |-> cfg[i][2]] ELSE None,
                      IF use_border THEN [i \in 1..Len(cfg) |-> cfg[i][3]] ELSE None,
                      Len(cfg), TRUE)
    /\ item = NoItem

\* __getitem__, lines 115-139, on an array of shape init_shape
GetItemPatch ==
    /\ item.op = "none"
    /\ IF mds.patch_size # None
       THEN \/ /\ patch_starts_choices(mds, init_shape) = {}
               /\ item' = [NoItem EXCEPT !.op = "getitem", !.outcome = "ValueError"]
            \/ \E starts \in patch_starts_choices(mds, init_shape) :
                  item' = [op |-> "getitem", outcome |-> "ok", patch_starts |-> starts,
                           data_shape |-> patch_shape(mds, init_shape, starts),
                           mask |-> compute_border_mask(mds, init_shape, starts)]
       ELSE item' = [op |-> "getitem", outcome |-> "ok", patch_starts |-> <<>>,
                     data_shape |-> init_shape,
                     mask |-> compute_border_mask(mds, init_shape, <<>>)]
    /\ UNCHANGED <<mds, init_shape, indexVars, splitVars, workerVars>>

\* compute_border_mask called with any patch position inside the array
ComputeBorderMask ==
    /\ item.op = "none"
    /\ \E starts \in (IF mds.patch_size = <<>> THEN {<<>>}
                       ELSE Product([i \in Axes(mds) |-> 0..max_starts(mds, init_shape)[i]])) :
          item' = [op |-> "compute_border_mask", outcome |-> "ok", patch_starts |-> starts,
                   data_shape |-> <<>>,
                   mask |-> compute_border_mask(mds, init_shape, starts)]
    /\ UNCHANGED <<mds, init_shape, indexVars, splitVars, workerVars>>

----------------------------------------------------------------------------
(* XRayDataModule.prepare_data *)

XRayDataModule(train_samples, height_range, train_day_range, validation_split, num_workers, dimension) ==
    [train_samples |-> train_samples, height_range |-> height_range,
     train_day_range |-> train_day_range, validation_split |-> validation_split,
     num_workers |-> num_workers, dimension |-> dimension]

\* line 255: int(validation_split * len), the split given as a fraction <<p, q>>
num_val_samples(m, len) == (m.validation_split[1] * len) \div m.validation_split[2]

\* Both halves cut from the start of the permutation
random_split_from_zero(n, lengths) ==
    {<<0..(lengths[1] - 1), 0..(lengths[2] - 1)>>}

\* lines 257-260: random_split permutes range(n) and cuts it in two; the seed
\* decides the permutation, so every cut of the sizes asked for can come out
random_split(n, lengths) ==
    {<<(0..(n - 1)) \ val, val>> : val \in {v \in SUBSET (0..(n - 1)) : Cardinality(v) = lengths[2]}}

\* line 266: get_all_group_paths, the leaf groups in visiting order
get_all_group_paths(st) == st.all_samples

Orderings(S) ==
    {q \in [1..Cardinality(S) -> S] : \A i, j \in 1..Cardinality(S) : i # j => q[i] # q[j]}

\* The train samples not removed
test_samples_keep_train(m, st) == Orderings(SeqToSet(get_all_group_paths(st)))

\* line 267: list(set(all_samples) - set(train_samples)), in any order
test_samples_of(m, st) ==
    Orderings(SeqToSet(get_all_group_paths(st)) \ SeqToSet(m.train_samples))

\* lines 269-271
test_day_range_of(m, st) == <<m.train_day_range[2], st.total_days>>

\* lines 244-249
train_val_selection(m) ==
    DataSelection(m.train_samples, m.height_range, m.train_day_range, m.dimension)

\* lines 274-279
strict_test_selection(m, test_samples, test_day_range) ==
    DataSelection(test_samples, m.height_range, test_day_range, m.dimension)

\* lines 285-290
overlap_test_selection_same_days(m, test_samples, test_day_range) ==
    DataSelection(test_samples, m.height_range, m.train_day_range, m.dimension)

\* The day range of the train set used again
overlap_test_selection_same_samples_train_days(m, test_samples, test_day_range) ==
    DataSelection(m.train_samples, m.height_range, m.train_day_range, m.dimension)

\* lines 296-301
overlap_test_selection_same_samples(m, test_samples, test_day_range) ==
    DataSelection(m.train_samples, m.height_range, test_day_range, m.dimension)

Dataset(m, sel, name) == XRayDataset(sel, name, None, None, m.dimension, TRUE)

\* ConcatDataset.cumsum: the running sum of len() of each dataset
cumsum(sizes) == [i \in 1..Len(sizes) |-> IF i = 1 THEN sizes[1] ELSE sizes[1] + sizes[2]]

NotPrepared ==
    [pc |-> "new", datasets |-> <<>>, train |-> {}, val |-> {},
     cumulative_sizes |-> <<>>]

\* prepare_data, lines 242-323.  len() of a dataset whose __len__ is negative
\* raises ValueError: ConcatDataset takes len() of both its datasets.  A
\* DataLoader with persistent_workers and no workers raises ValueError.
PrepareData ==
    /\ prepared.pc = "new"
    /\ LET train_val == Dataset(module, train_val_selection(module), "train_val")
           n == XRayDataset_len(train_val)
           nv == num_val_samples(module, n)
       IN  \E split \in random_split(n, <<n - nv, nv>>),
              test_samples \in test_samples_of(module, store) :
             LET tdr == test_day_range_of(module, store)
                 dsets == [train_val |-> train_val,
                           test_strict |-> Dataset(module,
                               strict_test_selection(module, test_samples, tdr),
                               "test_strict"),
                           same_days |-> Dataset(module,
                               overlap_test_selection_same_days(module, test_samples, tdr),
                               "test_overlap_same_days"),
                           same_samples |-> Dataset(module,
                               overlap_test_selection_same_samples(module, test_samples, tdr),
                               "test_overlap_same_samples")]
                 sizes == <<XRayDataset_len(dsets.same_days),
                            XRayDataset_len(dsets.same_samples)>>
             IN  prepared' =
                   [pc |-> IF sizes[1] < 0 \/ sizes[2] < 0 \/ module.num_workers = 0
                           THEN "raised" ELSE "done",
                    datasets |-> dsets, train |-> split[1], val |-> split[2],
                    cumulative_sizes |-> cumsum(sizes)]
    /\ UNCHANGED <<module, store, access, indexVars, maskVars, workerVars>>

\* ConcatDataset.__getitem__: bisect_right over the cumulative sizes
ConcatLocate(cs, idx) ==
    LET total == cs[Len(cs)]
        i == IF idx < 0 THEN total + idx ELSE idx
        dataset_idx == Cardinality({k \in 1..Len(cs) : cs[k] <= i})
    IN  IF idx < 0 /\ -idx > total THEN [outcome |-> "ValueError"]
        ELSE IF dataset_idx >= Len(cs) THEN [outcome |-> "IndexError"]
        ELSE [outcome |-> "ok", dataset_idx |-> dataset_idx,
              sample_idx |-> IF dataset_idx = 0 THEN i ELSE i - cs[dataset_idx]]

OverlapHalves == <<"same_days", "same_samples">>

\* test_overlap[idx]: the half it falls in and the coordinate it resolves to
OverlapGetItem(pr, idx) ==
    LET loc == ConcatLocate(pr.cumulative_sizes, idx)
    IN  IF loc.outcome # "ok" THEN [half |-> "none", result |-> loc]
        ELSE [half |-> OverlapHalves[loc.dataset_idx + 1],
              result |-> ResolveIndex(pr.datasets[OverlapHalves[loc.dataset_idx + 1]],
                                      loc.sample_idx)]

----------------------------------------------------------------------------
(* SpecSplit: prepare_data over many configurations, then reads of the datasets *)

SampleUniverse == <<"a", "b", "c">>

TrainLists == {<<>>, <<"a">>, <<"b", "a">>, <<"a", "a">>, <<"a", "b", "c">>}

Fractions == {<<0, 1>>, <<1, 3>>, <<1, 2>>}

NoAccess == [name |-> "none", idx |-> 0, half |-> "none", result |-> NoResult]

IdleSplit ==
    /\ module = None
    /\ store = None
    /\ prepared = NotPrepared
    /\ access = NoAccess

InitSplit ==
    /\ \E ts \in TrainLists, hr \in Ranges(MaxHeights), dr \in Ranges(MaxDays + 1),
          vs \in Fractions, dim \in {2, 3} :
          module = XRayDataModule(ts, hr, dr, vs, 1, dim)
    /\ num_points(train_val_selection(module)) <= MaxPoints
    /\ \E td \in 1..MaxDays : store = [all_samples |-> SampleUniverse, total_days |-> td]
    /\ prepared = NotPrepared
    /\ access = NoAccess

\* An item of train or val: Subset hands an entry of its index list to train_val
ReadTrainVal ==
    /\ prepared.pc = "done"
    /\ \E name \in {"train", "val"} : \E idx \in prepared[name] :
          access' = [name |-> name, idx |-> idx, half |-> "none",
                     result |-> ResolveIndex(prepared.datasets.train_val, idx)]
    /\ UNCHANGED <<module, store, prepared, indexVars, maskVars, workerVars>>

ReadTestStrict ==
    /\ prepared.pc = "done"
    /\ \E idx \in 0..(XRayDataset_len(prepared.datasets.test_strict) - 1) :
          access' = [name |-> "test_strict", idx |-> idx, half |-> "none",
                     result |-> ResolveIndex(prepared.datasets.test_strict, idx)]
    /\ UNCHANGED <<module, store, prepared, indexVars, maskVars, workerVars>>

ReadTestOverlap ==
    /\ prepared.pc = "done"
    /\ \E idx \in 0..(prepared.cumulative_sizes[2] - 1) :
          access' = [name |-> "test_overlap", idx |-> idx,
                     half |-> OverlapGetItem(prepared, idx).half,
                     result |-> OverlapGetItem(prepared, idx).result]
    /\ UNCHANGED <<module, store, prepared, indexVars, maskVars, workerVars>>

----------------------------------------------------------------------------
(* Spec: the loaders' worker processes and the HDF5 handles of their copies *)

Loaders == {"train", "val", "test_strict", "test_overlap"}

\* lines 258-311: the XRayDataset objects behind each loader's dataset
LoaderDatasets(l) ==
    CASE l = "train" -> {"train_val"}
      [] l = "val" -> {"train_val"}
      [] l = "test_strict" -> {"test_strict"}
      [] l = "test_overlap" -> {"same_days", "same_samples"}

\* The XRayDataset objects that serve some index of a loader's dataset
ServedBy(pr, l) ==
    CASE l = "train" -> IF pr.train # {} THEN {"train_val"} ELSE {}
      [] l = "val" -> IF pr.val # {} THEN {"train_val"} ELSE {}
      [] l = "test_strict" ->
            IF XRayDataset_len(pr.datasets.test_strict) > 0 THEN {"test_strict"} ELSE {}
      [] l = "test_overlap" ->
            {OverlapGetItem(pr, idx).half : idx \in 0..(pr.cumulative_sizes[2] - 1)}

\* The handle h5py.File(...) returns in worker w of loader l for dataset d
NewHandle(l, w, d) == <<l, w, d>>

\* lines 97-98: the handle after __getitem__ in worker w of loader l
hdf5_file_after(copy, l, w, d) ==
    IF copy.hdf5_file = None THEN NewHandle(l, w, d) ELSE copy.hdf5_file

NoRead == "none"

IdleWorkers ==
    /\ workers = None
    /\ last_read = NoRead

InitWorkers ==
    /\ \E nw \in 0..MaxWorkers :
          module = XRayDataModule(<<"a", "b">>, <<0, 1>>, <<0, 1>>, <<1, 2>>, nw, 2)
    /\ store = [all_samples |-> SampleUniverse, total_days |-> 2]
    /\ prepared = NotPrepared
    /\ access = NoAccess
    /\ workers = [l \in Loaders |-> <<>>]
    /\ last_read = NoRead

\* Iterating a loader starts its workers (persistent: once); each gets a copy
\* of the loader's dataset as the main process holds it at that moment
StartWorkers ==
    /\ prepared.pc = "done"
    /\ \E l \in Loaders :
          /\ workers[l] = <<>>
          /\ workers' = [workers EXCEPT ![l] =
                [w \in 1..module.num_workers |->
                    [d \in LoaderDatasets(l) |->
                        [hdf5_file |-> prepared.datasets[d].hdf5_file, opens |-> 0]]]]
    /\ UNCHANGED <<splitVars, last_read, indexVars, maskVars>>

\* dataset[idx] in a worker: __getitem__ of the XRayDataset copy that serves idx,
\* for any idx the loader's sampler hands out
WorkerGetItem ==
    /\ \E l \in Loaders : \E w \in 1..Len(workers[l]) :
       \E d \in ServedBy(prepared, l) :
          LET copy == workers[l][w][d]
          IN  /\ workers' = [workers EXCEPT ![l][w][d] =
                    [hdf5_file |-> hdf5_file_after(copy, l, w, d),
                     opens |-> IF copy.hdf5_file = None THEN copy.opens + 1
                               ELSE copy.opens]]
              /\ last_read' = IF copy.hdf5_file = None THEN "opened" ELSE "reused"
    /\ UNCHANGED <<splitVars, indexVars, maskVars>>

----------------------------------------------------------------------------
(* Specifications *)

InitIndexSpec == InitIndex /\ IdleMask /\ IdleSplit /\ IdleWorkers

NextIndex == IterNext \/ ProbeGetItem

SpecIndex == InitIndexSpec /\ [][NextIndex]_vars

InitMaskSpec == InitMask /\ IdleIndex /\ IdleSplit /\ IdleWorkers

NextMask == GetItemPatch \/ ComputeBorderMask

SpecMask == InitMaskSpec /\ [][NextMask]_vars

InitSplitSpec == InitSplit /\ IdleIndex /\ IdleMask /\ IdleWorkers

NextSplit == PrepareData \/ ReadTrainVal \/ ReadTestStrict \/ ReadTestOverlap

SpecSplit == InitSplitSpec /\ [][NextSplit]_vars

Init == InitWorkers /\ IdleIndex /\ IdleMask

Next == PrepareData \/ StartWorkers \/ WorkerGetItem

Spec == Init /\ [][Next]_vars

----------------------------------------------------------------------------
(* Index resolution (SpecIndex) *)

PassDone == next_idx = XRayDataset_len(ds)

NonEmptySelection(sel) ==
    num_samples(sel) > 0 /\ num_days(sel) > 0 /\ num_heights(sel) > 0

TimesVisited(s, d, h) ==
    Cardinality({i \in 1..Len(visited) :
        /\ visited[i].outcome = "ok"
        /\ visited[i].sample = s
        /\ visited[i].day = d
        /\ (h = -1 \/ visited[i].height = h)})

\* C1: for a Selection with a non-empty sample list, day range and height
\* range, a pass over idx = 0 .. num_points-1 visits every (sample, day, height)
\* in range exactly once when dimension is 2 and every (sample, day) in range
\* exactly once when dimension is 3, and num_points = num_samples * points_per_sample.
C1_EveryCombinationOnce ==
    LET sel == ds.selection
    IN  (PassDone /\ NonEmptySelection(sel)) =>
          /\ num_points(sel) = num_samples(sel) * points_per_sample(sel)
          /\ \A s \in SeqToSet(sel.sample_list), d \in RangeSet(sel.day_range) :
                IF sel.dimension = 2
                THEN \A h \in RangeSet(sel.height_range) : TimesVisited(s, d, h) = 1
                ELSE TimesVisited(s, d, -1) = 1

\* The same for dimension 2 alone
Dimension2EveryCombinationOnce ==
    ds.selection.dimension = 2 => C1_EveryCombinationOnce

OutsideRange(idx, sel) == idx < 0 \/ idx >= num_points(sel)

\* C4: ds[idx] raises IndexError for every integer idx outside [0, num_points),
\* idx >= num_points as well as idx < 0, and returns no data for it (stated
\* for datasets that hold at least one point).
C4_OutsideRangeRaisesIndexError ==
    (/\ probe.result.outcome # "none"
     /\ num_points(ds.selection) > 0
     /\ OutsideRange(probe.idx, ds.selection))
        => probe.result.outcome = "IndexError"

\* The part of C4 the code keeps: idx >= num_points raises IndexError
AboveRangeRaisesIndexError ==
    (/\ probe.result.outcome # "none"
     /\ num_points(ds.selection) > 0
     /\ probe.idx >= num_points(ds.selection))
        => probe.result.outcome = "IndexError"

----------------------------------------------------------------------------
(* Patch and border mask (SpecMask) *)

BothConfigured == mds.patch_size # <<>> /\ mds.patch_border # <<>>

Remaining(i) == init_shape[i] - (item.patch_starts[i] + mds.patch_size[i])

\* Both borders of every axis fit in the patch
BordersFit == \A i \in Axes(mds) : 2 * mds.patch_border[i] <= mds.patch_size[i]

\* C2: with a patch size and a border configured, on an axis where
\* patch_start is 0 the included slice starts at patch position 0, and on an
\* axis where patch_start + patch_extent equals axis_extent the end margin is 0,
\* so the included slice ends at patch_extent (stated for borders that fit
\* in the patch).
C2_EdgePatchKeepsBorder ==
    (item.outcome = "ok" /\ BothConfigured /\ BordersFit) =>
        \A i \in Axes(mds) :
            /\ item.patch_starts[i] = 0 => item.mask.slices[i][1] = 0
            /\ Remaining(i) = 0 => item.mask.slices[i][2] = mds.patch_size[i]

ClaimedStart(i) ==
    IF mds.patch_border[i] > item.patch_starts[i]
    THEN mds.patch_border[i] - item.patch_starts[i]
    ELSE mds.patch_border[i]

ClaimedEnd(i) ==
    IF mds.patch_border[i] > Remaining(i)
    THEN mds.patch_border[i] - Remaining(i)
    ELSE mds.patch_border[i]

\* The half-open interval [start_i, patch_extent_i - end_i) of each axis
ClaimedIntervals ==
    [i \in Axes(mds) |-> ClaimedStart(i) .. (mds.patch_size[i] - ClaimedEnd(i) - 1)]

MaskAsClaimed ==
    IF mds.patch_size = <<>>
    THEN item.mask.shape = init_shape /\ item.mask.true = FullMask(init_shape).true
    ELSE IF mds.patch_border = <<>>
    THEN item.mask.shape = mds.patch_size /\ item.mask.true = FullMask(mds.patch_size).true
    ELSE /\ item.mask.shape = mds.patch_size
         /\ item.mask.true = Product(ClaimedIntervals)
         /\ \A i \in Axes(mds) :
               (init_shape[i] = 20 /\ item.patch_starts[i] = 5)
                  => item.mask.slices[i] = <<3, 7>>

\* C3: for every patch position inside the array the mask is all-true over the
\* full shape without a patch size, all-true over the patch shape without a
\* border, and otherwise true exactly on the product of the per-axis intervals
\* [start_i, patch_extent_i - end_i); the interior patch of size 10 with border
\* 3 at start 5 of an axis of 20 gives [3, 7).
C3_MaskIsProductOfIntervals ==
    item.outcome = "ok" => MaskAsClaimed

\* C3 where no border exceeds the patch extent of its axis
MaskIsProductWhenBorderFits ==
    (/\ item.outcome = "ok"
     /\ BothConfigured => \A i \in Axes(mds) : mds.patch_border[i] <= mds.patch_size[i])
        => MaskAsClaimed

\* C5: with a patch size configured, patch_extent <= axis_extent on every axis
\* and shuffling, the draw of the patch starts succeeds for every
\* max_start >= 0, every start lies in [0, max_start], and the patch has the
\* configured extents and lies inside the array.
C5_StartDrawnFromInclusiveRange ==
    (/\ item.op = "getitem"
     /\ mds.patch_size # <<>>
     /\ mds.shuffle
     /\ \A i \in Axes(mds) : mds.patch_size[i] <= init_shape[i])
        => /\ item.outcome = "ok"
           /\ \A i \in Axes(mds) :
                 /\ item.patch_starts[i] \in 0..max_starts(mds, init_shape)[i]
                 /\ item.data_shape[i] = mds.patch_size[i]
                 /\ item.patch_starts[i] + mds.patch_size[i] <= init_shape[i]

\* What the code does instead: max_start itself is never drawn
StartBelowMaxStart ==
    (item.op = "getitem" /\ item.outcome = "ok" /\ mds.patch_size # <<>>)
        => \A i \in Axes(mds) : item.patch_starts[i] < max_starts(mds, init_shape)[i]

----------------------------------------------------------------------------
(* The split (SpecSplit) *)

Ran == prepared.pc # "new"

TrainDays == RangeSet(module.train_day_range)

TrainSamples == SeqToSet(module.train_samples)

\* The (sample, day) pairs the indices of a dataset resolve to
Pairs(d, indices) ==
    {<<r.sample, r.day>> : r \in {q \in {ResolveIndex(d, i) : i \in indices} : q.outcome = "ok"}}

AllIndices(d) == 0..(XRayDataset_len(d) - 1)

TrainPairs == Pairs(prepared.datasets.train_val, prepared.train)

ValPairs == Pairs(prepared.datasets.train_val, prepared.val)

StrictPairs == Pairs(prepared.datasets.test_strict, AllIndices(prepared.datasets.test_strict))

\* A configuration with distinct train samples and non-empty day and height ranges
PlainConfiguration ==
    /\ module.train_samples # <<>>
    /\ Cardinality(TrainSamples) = Len(module.train_samples)
    /\ module.train_day_range[1] < module.train_day_range[2]
    /\ module.height_range[1] < module.height_range[2]

\* C6 as stated: the (sample, day) pairs reached by train, val and test_strict
\* are pairwise disjoint (stated for dimension 2 and distinct train samples,
\* where every index of train+val resolves to a point of its own).
C6_PairsPairwiseDisjoint ==
    (Ran /\ PlainConfiguration /\ module.dimension = 2)
       =>  /\ TrainPairs \cap ValPairs = {}
           /\ TrainPairs \cap StrictPairs = {}
           /\ ValPairs \cap StrictPairs = {}

\* C6 as amended: train and val split the indices of the train+val dataset
\* (no index in both, none left out, val of the size asked for), and the
\* (sample, day) pairs of test_strict are disjoint from those of train and of val.
C6_IndicesSplitAndStrictDisjoint ==
    Ran => /\ prepared.train \cap prepared.val = {}
           /\ prepared.train \cup prepared.val = AllIndices(prepared.datasets.train_val)
           /\ Cardinality(prepared.val) =
                 num_val_samples(module, XRayDataset_len(prepared.datasets.train_val))
           /\ TrainPairs \cap StrictPairs = {}
           /\ ValPairs \cap StrictPairs = {}

C6_Witness ==
    /\ prepared.pc = "done"
    /\ prepared.train # {} /\ prepared.val # {}
    /\ StrictPairs # {}
    /\ access.name = "val" /\ access.result.outcome = "ok"

\* C7: when train_day_end >= total_days, prepare_data completes without raising
\* and the datasets over the test day range (test_strict and the same-samples
\* half of test_overlap) have length exactly 0, never a negative one.
C7_EmptyTestRangeIsNotFatal ==
    (Ran /\ module.train_day_range[2] >= store.total_days) =>
        /\ prepared.pc = "done"
        /\ XRayDataset_len(prepared.datasets.test_strict) = 0
        /\ XRayDataset_len(prepared.datasets.same_samples) = 0

\* The part of C7 the code keeps: train_day_end = total_days
EmptyTestRangeAtTotalDays ==
    (Ran /\ module.train_day_range[2] = store.total_days) =>
        /\ prepared.pc = "done"
        /\ XRayDataset_len(prepared.datasets.test_strict) = 0
        /\ XRayDataset_len(prepared.datasets.same_samples) = 0

\* C9: in test_overlap the indices [0, len_A) fall in the same-days half and
\* [len_A, len_A + len_B) in the same-samples half; a point of the same-days
\* half has a train day and a sample that is no train sample, a point of the
\* same-samples half has a train sample and a day that is no train day.
C9_OverlapHalvesShareOneAxis ==
    prepared.pc = "done" =>
        LET len_A == XRayDataset_len(prepared.datasets.same_days)
            len_B == XRayDataset_len(prepared.datasets.same_samples)
        IN  \A idx \in 0..(len_A + len_B - 1) :
              LET got == OverlapGetItem(prepared, idx)
              IN  /\ got.half = IF idx < len_A THEN "same_days" ELSE "same_samples"
                  /\ num_heights(prepared.datasets.train_val.selection) > 0
                        => got.result.outcome = "ok"
                  /\ got.result.outcome = "ok" =>
                        IF got.half = "same_days"
                        THEN /\ got.result.day \in TrainDays
                             /\ got.result.sample \notin TrainSamples
                        ELSE /\ got.result.sample \in TrainSamples
                             /\ got.result.day \notin TrainDays

C9_Witness ==
    /\ prepared.pc = "done"
    /\ access.name = "test_overlap"
    /\ access.half = "same_samples"
    /\ access.idx >= XRayDataset_len(prepared.datasets.same_days)
    /\ XRayDataset_len(prepared.datasets.same_days) > 0
    /\ access.result.outcome = "ok"

Member(sel, s, d) == s \in SeqToSet(sel.sample_list) /\ d \in RangeSet(sel.day_range)

SelectionsHolding(s, d) ==
    {k \in DOMAIN prepared.datasets : Member(prepared.datasets[k].selection, s, d)}

EveryStorePairInOneSelection ==
    \A s \in SeqToSet(store.all_samples), d \in 0..(store.total_days - 1) :
        Cardinality(SelectionsHolding(s, d)) = 1

\* C10 as stated: for any train day range, every (sample, day) of the store
\* belongs to exactly one of the four selections (stated for distinct train
\* samples and non-empty train day and height ranges).
C10_SelectionsCoverStore ==
    (Ran /\ PlainConfiguration) => EveryStorePairInOneSelection

\* C10 as amended: the same for train day ranges that start at day 0.
C10_SelectionsCoverStoreFromDayZero ==
    (Ran /\ module.train_day_range[1] = 0) => EveryStorePairInOneSelection

C10_Witness ==
    /\ prepared.pc = "done"
    /\ module.train_day_range[1] = 0
    /\ \A k \in DOMAIN prepared.datasets : XRayDataset_len(prepared.datasets[k]) > 0

----------------------------------------------------------------------------
(* The handles (Spec) *)

Copies == {c \in Loaders \X (1..MaxWorkers) \X {"train_val", "test_strict", "same_days", "same_samples"} :
             c[2] <= Len(workers[c[1]]) /\ c[3] \in LoaderDatasets(c[1])}

CopyOf(c) == workers[c[1]][c[2]][c[3]]

\* C8: the handle of every dataset is unopened after construction and through
\* prepare_data; a worker's copy opens its handle on its first __getitem__, at
\* most once, and keeps it; no two copies ever hold the same handle.
C8_OneHandlePerWorkerCopy ==
    /\ \A d \in DOMAIN prepared.datasets : prepared.datasets[d].hdf5_file = None
    /\ \A c \in Copies :
          /\ CopyOf(c).opens <= 1
          /\ CopyOf(c).opens = 0 <=> CopyOf(c).hdf5_file = None
          /\ CopyOf(c).hdf5_file \in {None, NewHandle(c[1], c[2], c[3])}
    /\ \A c1, c2 \in Copies :
          (c1 # c2 /\ CopyOf(c1).hdf5_file # None) => CopyOf(c1).hdf5_file # CopyOf(c2).hdf5_file
    /\ last_read # "none" => \E c \in Copies : CopyOf(c).opens = 1

C8_Witness ==
    /\ Len(workers["train"]) = 2 /\ Len(workers["val"]) = 2
    /\ \A w \in 1..2 : workers["train"][w]["train_val"].opens = 1
    /\ workers["val"][1]["train_val"].opens = 1
    /\ last_read = "reused"

====
